---- MODULE Spec2Model ----
(***************************************************************************)
(* datanomy: the byte accounting of a Parquet file's footer metadata       *)
(* (reader/s3_parquet.py), the views the terminal UI derives from it       *)
(* (tui.py) and the command line that opens a file (cli.py).               *)
(*                                                                         *)
(* The reader is the parsed footer of one opened file: its row groups,     *)
(* each an ordered list of column-chunk metadata records, the file size    *)
(* and the serialized footer size.  It is fixed when the file is opened.   *)
(* `out' is the result of the last operation run on the reader: a property *)
(* of RowGroup / S3ParquetReader, the renderable a tab's _render_* method  *)
(* returns (or the exception it raised), the string a formatting helper    *)
(* returns, or the outcome of one run of the command line.                 *)
(***************************************************************************)
EXTENDS Integers, Sequences, FiniteSets, TLC

VARIABLES reader, out

vars == <<reader, out>>

(***************************************************************************)
(* Bounds of the model.                                                    *)
(***************************************************************************)
MaxRowGroups == 2
MaxChunks == 3
MaxSize == 2
MaxPageIndexBytes == 1
FooterBytes == 5

(***************************************************************************)
(* Column-chunk metadata, as the footer holds it.                          *)
(***************************************************************************)
NoStatistics == [has_min_max |-> FALSE, has_null_count |-> FALSE,
                 has_distinct_count |-> FALSE]

\* What a writer decides about one column chunk, before it is placed in the
\* file: codec, sizes, the bytes of a leading dictionary page (0: none), and
\* which indexes and statistics it writes.
Kind(codec, compressed, uncompressed, dict, ci, oi, set, stats) ==
    [compression |-> codec,
     total_compressed_size |-> compressed,
     total_uncompressed_size |-> uncompressed,
     dict_bytes |-> dict,
     has_column_index |-> ci,
     has_offset_index |-> oi,
     is_stats_set |-> set,
     statistics |-> stats]

\* Chunks that differ in codec and sizes only; a chunk holds at least the
\* header of its page.  Under the UNCOMPRESSED codec
\* the pages are stored as they are, so both sizes are the same number; under
\* a real codec the stored size may be smaller than, equal to or larger than
\* the uncompressed size.
SizeKinds ==
    { Kind("UNCOMPRESSED", n, n, 0, FALSE, FALSE, FALSE, NoStatistics) :
        n \in 1..MaxSize }
    \cup
    { Kind("SNAPPY", c, u, 0, FALSE, FALSE, FALSE, NoStatistics) :
        c \in 1..MaxSize, u \in 1..MaxSize }

Stats(mm, nc, dc) ==
    [has_min_max |-> mm, has_null_count |-> nc, has_distinct_count |-> dc]

\* Chunks that differ in what surrounds the data pages: a column index, an
\* offset index, statistics of one sort, or a dictionary page with statistics
\* that hold num_values alone.
StructureKinds ==
    { Kind("UNCOMPRESSED", 2, 2, 0, FALSE, FALSE, FALSE, NoStatistics),
      Kind("UNCOMPRESSED", 2, 2, 0, TRUE, FALSE, FALSE, NoStatistics),
      Kind("UNCOMPRESSED", 2, 2, 0, FALSE, TRUE, FALSE, NoStatistics),
      Kind("UNCOMPRESSED", 2, 2, 0, FALSE, FALSE, TRUE, Stats(TRUE, FALSE, FALSE)),
      Kind("UNCOMPRESSED", 2, 2, 0, FALSE, FALSE, TRUE, Stats(FALSE, TRUE, FALSE)),
      Kind("UNCOMPRESSED", 2, 2, 0, FALSE, FALSE, TRUE, Stats(FALSE, FALSE, TRUE)),
      Kind("SNAPPY", 2, 3, 1, FALSE, FALSE, TRUE, NoStatistics) }

\* Chunks that differ in sizes and in the statistics they carry.
AggregateKinds ==
    { Kind("UNCOMPRESSED", 1, 1, 0, FALSE, FALSE, FALSE, NoStatistics),
      Kind("SNAPPY", 1, 2, 0, FALSE, FALSE, FALSE, NoStatistics),
      Kind("SNAPPY", 2, 1, 0, FALSE, FALSE, FALSE, NoStatistics),
      Kind("UNCOMPRESSED", 2, 2, 0, FALSE, FALSE, TRUE, NoStatistics),
      Kind("SNAPPY", 1, 2, 0, FALSE, FALSE, TRUE, Stats(TRUE, TRUE, TRUE)),
      Kind("SNAPPY", 0, 0, 0, FALSE, FALSE, TRUE, Stats(FALSE, TRUE, FALSE)) }

\* The chunk a kind becomes when its bytes start at offset `start': the
\* dictionary page, if any, comes first and the first data page follows it.
\* total_compressed_size counts all pages of the chunk.
Place(kind, start) ==
    [compression |-> kind.compression,
     total_compressed_size |-> kind.total_compressed_size,
     total_uncompressed_size |-> kind.total_uncompressed_size,
     dictionary_page_offset |-> IF kind.dict_bytes > 0 THEN start ELSE -1,
     data_page_offset |-> start + kind.dict_bytes,
     has_column_index |-> kind.has_column_index,
     has_offset_index |-> kind.has_offset_index,
     is_stats_set |-> kind.is_stats_set,
     statistics |-> kind.statistics]

RECURSIVE PlaceColumns(_, _)
PlaceColumns(kinds, start) ==
    IF kinds = <<>> THEN <<>>
    ELSE <<Place(Head(kinds), start)>>
         \o PlaceColumns(Tail(kinds), start + Head(kinds).total_compressed_size)

RECURSIVE KindBytes(_)
KindBytes(kinds) ==
    IF kinds = <<>> THEN 0
    ELSE Head(kinds).total_compressed_size + KindBytes(Tail(kinds))

RECURSIVE KindUncompressedBytes(_)
KindUncompressedBytes(kinds) ==
    IF kinds = <<>> THEN 0
    ELSE Head(kinds).total_uncompressed_size + KindUncompressedBytes(Tail(kinds))

\* Row groups are laid out one after the other, each the run of its chunks.
RECURSIVE PlaceRowGroups(_, _)
PlaceRowGroups(layout, start) ==
    IF layout = <<>> THEN <<>>
    ELSE <<[columns |-> PlaceColumns(Head(layout), start),
            total_byte_size |-> KindUncompressedBytes(Head(layout))]>>
         \o PlaceRowGroups(Tail(layout), start + KindBytes(Head(layout)))

RECURSIVE LayoutBytes(_)
LayoutBytes(layout) ==
    IF layout = <<>> THEN 0
    ELSE KindBytes(Head(layout)) + LayoutBytes(Tail(layout))

\* The opened file: 4 bytes of magic, the row groups, `gap' bytes between the
\* last chunk and the footer (page indexes, when written, live there), the
\* footer, and the 8 bytes of footer length and magic.  `width' is the number
\* of leaf columns of the schema.  `path' tells what reader.file_path is: the
\* S3ParquetReader keeps the URI it was given, a str; the local ParquetReader
\* (datanomy.reader.parquet, the reader the views are annotated with) keeps a
\* pathlib.Path.  Both readers offer the same accessors.
Open(layout, gap, width, path) ==
    [file_path |-> path,
     row_groups |-> PlaceRowGroups(layout, 4),
     num_columns |-> width,
     serialized_size |-> FooterBytes,
     file_size |-> 4 + LayoutBytes(layout) + gap + FooterBytes + 8]

\* The shapes of a file: the column counts of exactly r row groups that hold
\* at most n chunks together.
RECURSIVE Shapes(_, _)
Shapes(r, n) ==
    IF r = 0 THEN { <<>> }
    ELSE UNION { { <<c>> \o rest : rest \in Shapes(r - 1, n - c) } : c \in 0..n }

ShapesUpTo(rmax, n) == UNION { Shapes(r, n) : r \in 0..rmax }

RECURSIVE ShapeSum(_)
ShapeSum(shape) ==
    IF shape = <<>> THEN 0 ELSE Head(shape) + ShapeSum(Tail(shape))

\* The layout of a shape whose chunks, in file order, are `chunks'.
RECURSIVE Layout(_, _)
Layout(shape, chunks) ==
    IF shape = <<>> THEN <<>>
    ELSE <<SubSeq(chunks, 1, Head(shape))>>
         \o Layout(Tail(shape), SubSeq(chunks, Head(shape) + 1, Len(chunks)))

\* The column counts the row groups of a shape have.
Widths(shape) == { shape[i] : i \in 1..Len(shape) }

\* The schema of a written file has the columns its row groups have; a file
\* with no row group may have any schema.
SchemaWidths(shape) ==
    IF shape = <<>> THEN 0..MaxChunks ELSE Widths(shape)

(***************************************************************************)
(* reader/s3_parquet.py: RowGroup                                          *)
(***************************************************************************)
num_columns(rg) == Len(rg.columns)

\* ColumnChunkMetaData of column `index' (0-based); the caller stays in range.
column(rg, index) == rg.columns[index + 1]

\* RowGroupMetaData.column raises IndexError outside 0..num_columns-1.
column_raises(rg, index) == index < 0 \/ index >= num_columns(rg)

RECURSIVE has_compression_from(_, _)
has_compression_from(rg, j) ==
    IF j >= num_columns(rg) THEN FALSE
    ELSE IF column(rg, j).compression # "UNCOMPRESSED" THEN TRUE
    ELSE has_compression_from(rg, j + 1)

has_compression(rg) == has_compression_from(rg, 0)

RECURSIVE sum_compressed(_, _)
sum_compressed(rg, j) ==
    IF j >= num_columns(rg) THEN 0
    ELSE column(rg, j).total_compressed_size + sum_compressed(rg, j + 1)

RECURSIVE sum_uncompressed(_, _)
sum_uncompressed(rg, j) ==
    IF j >= num_columns(rg) THEN 0
    ELSE column(rg, j).total_uncompressed_size + sum_uncompressed(rg, j + 1)

total_sizes_from_one(rg) ==
    [compressed |-> sum_compressed(rg, 1),
     uncompressed |-> sum_uncompressed(rg, 1)]

total_sizes_skip_last(rg) ==
    [compressed |-> sum_compressed(rg, 0),
     uncompressed |-> sum_uncompressed(rg, 0)
                      - (IF num_columns(rg) > 0
                         THEN column(rg, num_columns(rg) - 1).total_uncompressed_size
                         ELSE 0)]

total_sizes(rg) ==
    [compressed |-> sum_compressed(rg, 0),
     uncompressed |-> sum_uncompressed(rg, 0)]

(***************************************************************************)
(* reader/s3_parquet.py: S3ParquetReader                                   *)
(***************************************************************************)
num_row_groups(r) == Len(r.row_groups)

get_row_group_info(r, index) == r.row_groups[index + 1]

get_row_group(r, index) == r.row_groups[index + 1]

file_size(r) == r.file_size

metadata_size(r) == r.serialized_size

\* The outcome of a call that may raise.
Returned(v) == [raised |-> FALSE, value |-> v]
Raised(e) == [raised |-> TRUE, error |-> e]

\* S3ParquetReader.page_index_size.  last_rg.column(num_columns - 1) is
\* column(-1) for a row group without columns, which raises.
page_index_size(r) ==
    IF num_row_groups(r) = 0 THEN Returned(0)
    ELSE LET last_rg == get_row_group_info(r, num_row_groups(r) - 1)
         IN  IF column_raises(last_rg, num_columns(last_rg) - 1)
             THEN Raised("IndexError")
             ELSE LET last_col == column(last_rg, num_columns(last_rg) - 1)
                      last_data_offset ==
                          last_col.data_page_offset + last_col.total_compressed_size
                      footer_start == file_size(r) - metadata_size(r) - 8
                  IN  Returned(footer_start - last_data_offset)

(***************************************************************************)
(* tui.py: StructureTab                                                    *)
(***************************************************************************)
max_cols_to_show == 20
cols_per_row == 3

\* f"{size_bytes / d:.2f}", in hundredths: the quotient is exact in binary
\* floating point (d is a power of two, 1024 or more) and the format rounds it
\* to hundredths, ties to even.  100 * size_bytes is not formed: the
\* remainder r of size_bytes by d is split as a * (d / 1024) + b, so that every
\* intermediate value stays below 2^31.
TwoDecimals(size_bytes, d) ==
    LET whole == size_bytes \div d
        r == size_bytes % d
        e == d \div 1024
        a == r \div e
        b == r % e
        x == a * 100 + (b * 100) \div e
        q == x \div 1024
        rem == ((x % 1024) * e) + ((b * 100) % e)
        half == d \div 2
    IN  whole * 100
        + (IF rem > half THEN q + 1
           ELSE IF rem = half THEN q + (q % 2)
           ELSE q)

\* f"{size_bytes:,}": the decimal digits in groups of three from the right;
\* every group after the first is printed with three digits.
RECURSIVE Grouped(_)
Grouped(size_bytes) ==
    IF size_bytes < 1000 THEN <<size_bytes>>
    ELSE Grouped(size_bytes \div 1000) \o <<size_bytes % 1000>>

\* StructureTab._format_size.  The string is kept as its parts: <<n, "bytes">>
\* is "n bytes", <<h, "KB", g>> is "h/100 KB (g bytes)" with h printed with
\* two decimals and g the groups of the byte count.
StructureTab_format_size(size_bytes) ==
    IF size_bytes < 1024 THEN <<size_bytes, "bytes">>
    ELSE IF size_bytes < 1024 * 1024
    THEN <<TwoDecimals(size_bytes, 1024), "KB", Grouped(size_bytes)>>
    ELSE IF size_bytes < 1024 * 1024 * 1024
    THEN <<TwoDecimals(size_bytes, 1024 * 1024), "MB", Grouped(size_bytes)>>
    ELSE <<TwoDecimals(size_bytes, 1024 * 1024 * 1024), "GB", Grouped(size_bytes)>>

Absent == <<>>

\* (1 - compressed / uncompressed) * 100, kept as the two sizes it is computed
\* from; the division raises ZeroDivisionError when uncompressed is 0.
ZeroDivisionError == <<"ZeroDivisionError">>

compression_pct(compressed, uncompressed) ==
    IF uncompressed = 0 THEN ZeroDivisionError
    ELSE <<compressed, uncompressed>>

\* The panel of one column chunk of a row group (lines 137-181).
ColumnPanel(col) ==
    LET is_compressed == col.compression # "UNCOMPRESSED"
    IN  [kind |-> "column",
         compressed |-> IF is_compressed
                        THEN StructureTab_format_size(col.total_compressed_size)
                        ELSE Absent,
         uncompressed |-> IF is_compressed
                          THEN StructureTab_format_size(col.total_uncompressed_size)
                          ELSE Absent,
         ratio |-> IF is_compressed /\ col.total_uncompressed_size > 0
                   THEN compression_pct(col.total_compressed_size,
                                        col.total_uncompressed_size)
                   ELSE Absent,
         size |-> IF is_compressed THEN Absent
                  ELSE StructureTab_format_size(col.total_compressed_size),
         codec |-> col.compression]

BlankCell == [kind |-> "empty"]

ColumnGrid_uncapped(rg) ==
    LET cols_to_display == num_columns(rg)
        rows == (cols_to_display + cols_per_row - 1) \div cols_per_row
    IN  [k \in 1..rows |->
           [col_offset \in 1..cols_per_row |->
              LET col_idx == (k - 1) * cols_per_row + (col_offset - 1)
              IN  IF col_idx < cols_to_display
                  THEN ColumnPanel(column(rg, col_idx))
                  ELSE BlankCell]]

\* The grid of column panels, cols_per_row to a row (lines 121-187).
ColumnGrid(rg) ==
    LET cols_to_display == IF num_columns(rg) < max_cols_to_show
                           THEN num_columns(rg) ELSE max_cols_to_show
        rows == (cols_to_display + cols_per_row - 1) \div cols_per_row
    IN  [k \in 1..rows |->
           [col_offset \in 1..cols_per_row |->
              LET col_idx == (k - 1) * cols_per_row + (col_offset - 1)
              IN  IF col_idx < cols_to_display
                  THEN ColumnPanel(column(rg, col_idx))
                  ELSE BlankCell]]

RECURSIVE structure_compressed_sum(_, _)
structure_compressed_sum(rg, j) ==
    IF j >= num_columns(rg) THEN 0
    ELSE column(rg, j).total_compressed_size + structure_compressed_sum(rg, j + 1)

\* The panel of row group i (lines 85-204).
RowGroupPanel(r, i) ==
    LET rg == get_row_group_info(r, i)
        compressed_sum == structure_compressed_sum(rg, 0)
        uncompressed_sum == rg.total_byte_size
        any_compression ==
            \E j \in 0..(num_columns(rg) - 1) :
                column(rg, j).compression # "UNCOMPRESSED"
    IN  [kind |-> "row_group",
         index |-> i,
         compressed |-> IF any_compression
                        THEN StructureTab_format_size(compressed_sum) ELSE Absent,
         uncompressed |-> IF any_compression
                          THEN StructureTab_format_size(uncompressed_sum) ELSE Absent,
         ratio |-> IF any_compression /\ uncompressed_sum > 0
                   THEN compression_pct(compressed_sum, uncompressed_sum)
                   ELSE Absent,
         size |-> IF any_compression THEN Absent
                  ELSE StructureTab_format_size(compressed_sum),
         columns |-> num_columns(rg),
         grid |-> ColumnGrid(rg),
         more |-> IF num_columns(rg) > max_cols_to_show
                  THEN num_columns(rg) - max_cols_to_show ELSE 0]

\* The presence flags before the scan (lines 213-217).
NoFlags ==
    [has_col_index |-> FALSE, has_off_index |-> FALSE, has_min_max |-> FALSE,
     has_null_count |-> FALSE, has_distinct_count |-> FALSE]

scan_chunk_overwrite(flags, col) ==
    [has_col_index |-> col.has_column_index,
     has_off_index |-> col.has_offset_index,
     has_min_max |-> col.is_stats_set /\ col.statistics.has_min_max,
     has_null_count |-> col.is_stats_set /\ col.statistics.has_null_count,
     has_distinct_count |-> col.is_stats_set /\ col.statistics.has_distinct_count]

\* The body of the scan's inner loop for one chunk (lines 222-236).
scan_chunk(flags, col) ==
    [has_col_index |-> IF col.has_column_index THEN TRUE ELSE flags.has_col_index,
     has_off_index |-> IF col.has_offset_index THEN TRUE ELSE flags.has_off_index,
     has_min_max |->
         IF col.is_stats_set /\ col.statistics.has_min_max
         THEN TRUE ELSE flags.has_min_max,
     has_null_count |->
         IF col.is_stats_set /\ col.statistics.has_null_count
         THEN TRUE ELSE flags.has_null_count,
     has_distinct_count |->
         IF col.is_stats_set /\ col.statistics.has_distinct_count
         THEN TRUE ELSE flags.has_distinct_count]

\* The scan after `steps' passes of the inner loop body, started at row group
\* i, column j, with the flags so far (lines 219-236).  The whole scan is the
\* one that no count of steps cuts short.
RECURSIVE scan_steps(_, _, _, _, _)
scan_steps(r, i, j, flags, steps) ==
    IF i >= num_row_groups(r) \/ steps = 0 THEN flags
    ELSE LET rg == get_row_group_info(r, i)
         IN  IF j >= num_columns(rg) THEN scan_steps(r, i + 1, 0, flags, steps)
             ELSE scan_steps(r, i, j + 1, scan_chunk(flags, column(rg, j)), steps - 1)

RECURSIVE count_chunks(_, _)
count_chunks(r, i) ==
    IF i >= num_row_groups(r) THEN 0
    ELSE num_columns(get_row_group_info(r, i)) + count_chunks(r, i + 1)

scan(r) == scan_steps(r, 0, 0, NoFlags, count_chunks(r, 0))

\* The Page Indexes panel (lines 239-315).
PageIndexPanel(size, flags) ==
    [kind |-> "page_index",
     total_size |-> StructureTab_format_size(size),
     column_index |->
         IF flags.has_col_index
         THEN [min_max |-> flags.has_min_max,
               null_count |-> flags.has_null_count,
               distinct_count |-> flags.has_distinct_count]
         ELSE Absent,
     offset_index |-> flags.has_off_index]

Blank == [kind |-> "blank"]

show_page_indexes_nonzero(size) == size # 0

\* The guard of the page-index section (line 209).
show_page_indexes(size) == size > 0

page_index_panels_always(size, flags) == <<PageIndexPanel(size, flags)>>

\* page_index_panels as lines 238-315 fill it, once the scan is done.
page_index_panels(size, flags) ==
    IF flags.has_col_index \/ flags.has_off_index
    THEN <<PageIndexPanel(size, flags)>>
    ELSE <<>>

\* StructureTab._render_structure.  reader.file_path.name (line 69) needs a
\* Path; a str has no attribute `name'.  Row counts are not part of the model.
render_structure(r) ==
    IF r.file_path # "Path" THEN Raised("AttributeError")
    ELSE LET size == page_index_size(r)
         IN  IF size.raised THEN size
             ELSE LET scanned == show_page_indexes(size.value)
                      flags == IF scanned THEN scan(r) ELSE NoFlags
                      panels == IF scanned
                                THEN page_index_panels(size.value, flags) ELSE <<>>
                      row_group_panels ==
                          [i \in 1..num_row_groups(r) |-> RowGroupPanel(r, i - 1)]
                  IN  [raised |-> FALSE,
                       scanned |-> scanned,
                       flags |-> flags,
                       sections |->
                           <<[kind |-> "file_info",
                              size |-> StructureTab_format_size(file_size(r))],
                             Blank, [kind |-> "header"], Blank>>
                           \o row_group_panels
                           \o (IF panels # <<>> THEN <<Blank>> \o panels ELSE <<>>)
                           \o <<Blank,
                                [kind |-> "footer",
                                 row_groups |-> num_row_groups(r),
                                 metadata |->
                                     StructureTab_format_size(metadata_size(r))]>>]

(***************************************************************************)
(* tui.py: SchemaTab                                                       *)
(***************************************************************************)
\* SchemaTab._format_size, the tab's own copy.
SchemaTab_format_size(size_bytes) ==
    IF size_bytes < 1024 THEN <<size_bytes, "bytes">>
    ELSE IF size_bytes < 1024 * 1024
    THEN <<TwoDecimals(size_bytes, 1024), "KB", Grouped(size_bytes)>>
    ELSE IF size_bytes < 1024 * 1024 * 1024
    THEN <<TwoDecimals(size_bytes, 1024 * 1024), "MB", Grouped(size_bytes)>>
    ELSE <<TwoDecimals(size_bytes, 1024 * 1024 * 1024), "GB", Grouped(size_bytes)>>

\* One pass of the inner loop body (lines 427-434): the dict column_sizes,
\* a function from the column positions seen so far to <<compressed,
\* uncompressed>>, after chunk col_chunk at position col_idx.
add_chunk(column_sizes, col_idx, col_chunk) ==
    LET before == IF col_idx \in DOMAIN column_sizes
                  THEN column_sizes[col_idx] ELSE <<0, 0>>
    IN  [k \in (DOMAIN column_sizes) \cup {col_idx} |->
           IF k = col_idx
           THEN <<before[1] + col_chunk.total_compressed_size,
                  before[2] + col_chunk.total_uncompressed_size>>
           ELSE column_sizes[k]]

\* The loops of lines 424-434 from row group rg_idx, column col_idx on.
RECURSIVE column_sizes_from(_, _, _, _)
column_sizes_from(r, rg_idx, col_idx, column_sizes) ==
    IF rg_idx >= num_row_groups(r) THEN column_sizes
    ELSE LET rg == get_row_group_info(r, rg_idx)
         IN  IF col_idx >= num_columns(rg)
             THEN column_sizes_from(r, rg_idx + 1, 0, column_sizes)
             ELSE column_sizes_from(r, rg_idx, col_idx + 1,
                                    add_chunk(column_sizes, col_idx,
                                              column(rg, col_idx)))

\* The size lines of the panel of column col_idx (lines 451-477).
SchemaColumnPanel(column_sizes, col_idx) ==
    IF col_idx \in DOMAIN column_sizes
    THEN LET compressed == column_sizes[col_idx][1]
             uncompressed == column_sizes[col_idx][2]
         IN  IF compressed # uncompressed
             THEN [kind |-> "column", position |-> col_idx, sizes |-> TRUE,
                   total |-> column_sizes[col_idx],
                   compressed |-> SchemaTab_format_size(compressed),
                   uncompressed |-> SchemaTab_format_size(uncompressed),
                   ratio |-> IF uncompressed > 0
                             THEN compression_pct(compressed, uncompressed)
                             ELSE Absent,
                   size |-> Absent]
             ELSE [kind |-> "column", position |-> col_idx, sizes |-> TRUE,
                   total |-> column_sizes[col_idx],
                   compressed |-> Absent, uncompressed |-> Absent,
                   ratio |-> Absent,
                   size |-> SchemaTab_format_size(compressed)]
    ELSE [kind |-> "column", position |-> col_idx, sizes |-> FALSE,
          total |-> Absent,
          compressed |-> Absent, uncompressed |-> Absent, ratio |-> Absent,
          size |-> Absent]

\* SchemaTab._render_schema: one panel per column of the schema, in order.
\* The schema's text, types and levels are not part of the model.
render_schema(r) ==
    LET schema_columns == r.num_columns
        column_sizes == column_sizes_from(r, 0, 0, <<>>)
    IN  Returned([state |-> "rendered",
                  columns |-> [k \in 1..schema_columns |->
                                 SchemaColumnPanel(column_sizes, k - 1)]])

(***************************************************************************)
(* tui.py: StatsTab                                                        *)
(***************************************************************************)
\* The search of lines 571-580, from row group rg_idx, column col_idx on.
RECURSIVE has_any_stats_from(_, _, _)
has_any_stats_from(r, rg_idx, col_idx) ==
    IF rg_idx >= num_row_groups(r) THEN FALSE
    ELSE LET rg == get_row_group_info(r, rg_idx)
         IN  IF col_idx >= num_columns(rg)
             THEN has_any_stats_from(r, rg_idx + 1, 0)
             ELSE IF column(rg, col_idx).is_stats_set THEN TRUE
             ELSE has_any_stats_from(r, rg_idx, col_idx + 1)

StatsRecord_unguarded(r, rg_idx, col_chunk) ==
    [row_group |-> rg_idx,
     header |-> num_row_groups(r) > 1,
     num_values |-> TRUE,
     min_max |-> TRUE,
     null_count |-> TRUE,
     distinct_count |-> TRUE]

\* What lines 619-652 show of one chunk whose statistics are set: num_values
\* always, the others under their flags.
StatsRecord(r, rg_idx, col_chunk) ==
    [row_group |-> rg_idx,
     header |-> num_row_groups(r) > 1,
     num_values |-> TRUE,
     min_max |-> col_chunk.statistics.has_min_max,
     null_count |-> col_chunk.statistics.has_null_count,
     distinct_count |-> col_chunk.statistics.has_distinct_count]

\* The records of column col_idx from row group rg_idx on (lines 615-656).
RECURSIVE stats_records_from(_, _, _)
stats_records_from(r, col_idx, rg_idx) ==
    IF rg_idx >= num_row_groups(r) THEN <<>>
    ELSE LET col_chunk == column(get_row_group_info(r, rg_idx), col_idx)
         IN  (IF col_chunk.is_stats_set
              THEN <<StatsRecord(r, rg_idx, col_chunk)>> ELSE <<>>)
             \o stats_records_from(r, col_idx, rg_idx + 1)

\* The panel of column col_idx (lines 609-660).
StatsColumnPanel(r, col_idx) ==
    LET records == stats_records_from(r, col_idx, 0)
    IN  [kind |-> "column", position |-> col_idx, records |-> records,
         no_statistics_available |-> records = <<>>]

\* StatsTab._render_stats.  rg.column(col_idx) (line 617) is asked of every
\* row group for every column of the file metadata, and raises IndexError in
\* a row group that has no such column.
render_stats(r) ==
    IF ~has_any_stats_from(r, 0, 0)
    THEN Returned([state |-> "no_statistics", columns |-> <<>>])
    ELSE IF \E col_idx \in 0..(r.num_columns - 1), rg_idx \in 0..(num_row_groups(r) - 1) :
              column_raises(get_row_group_info(r, rg_idx), col_idx)
    THEN Raised("IndexError")
    ELSE Returned([state |-> "rendered",
                   columns |-> [k \in 1..r.num_columns |->
                                  StatsColumnPanel(r, k - 1)]])

(***************************************************************************)
(* tui.py: DataTab                                                         *)
(***************************************************************************)
\* Bounds of the data preview: the rows of a file and the characters of a
\* cell's string form.
MaxRows == 3
MaxValueLen == 5

default_num_rows == 50
default_max_length == 50

\* A cell value as _format_value sees it: None, or a value with its str().
\* Strings are sequences of characters.
None == [is_none |-> TRUE, str |-> <<"N", "o", "n", "e">>]
Value(s) == [is_none |-> FALSE, str |-> s]

Chars == {"a", "."}

RECURSIVE StringsOfLen(_)
StringsOfLen(n) ==
    IF n = 0 THEN { <<>> }
    ELSE { <<c>> \o s : c \in Chars, s \in StringsOfLen(n - 1) }

Strings(n) == UNION { StringsOfLen(k) : k \in 0..n }

Values == {None} \cup { Value(s) : s \in Strings(MaxValueLen) }

NULL == <<"N", "U", "L", "L">>
Ellipsis == <<".", ".", ".">>

\* s[:stop] of Python: a negative stop counts from the end.
SliceTo(s, stop) ==
    IF stop >= 0
    THEN SubSeq(s, 1, IF stop < Len(s) THEN stop ELSE Len(s))
    ELSE SubSeq(s, 1, IF Len(s) + stop > 0 THEN Len(s) + stop ELSE 0)

format_value_cut_at_max(value, max_length) ==
    IF value.is_none THEN NULL
    ELSE IF Len(value.str) > max_length
    THEN SliceTo(value.str, max_length) \o Ellipsis
    ELSE value.str

\* DataTab._format_value.
format_value(value, max_length) ==
    IF value.is_none THEN NULL
    ELSE LET value_str == value.str
         IN  IF Len(value_str) > max_length
             THEN SliceTo(value_str, max_length - 3) \o Ellipsis
             ELSE value_str

\* The cells the previewed files are made of (one column).
PreviewCells == { None, Value(<<"a">>), Value(<<".", "a">>) }

\* A file as the data tab reads it: `table' is what parquet_file.read()
\* returns, one cell per row; `read_raises' tells that the read fails (the
\* data pages do not decode, or the table does not fit in memory);
\* `unconvertible' are the rows whose cell has no Python value, so that
\* as_py() raises (a timestamp outside the years of datetime).
OpenData(table, read_raises) ==
    [file_path |-> "Path",
     table |-> table,
     num_rows |-> Len(table),
     read_raises |-> read_raises,
     unconvertible |-> {}]

preview_slice_offset(table, num_rows) ==
    IF Len(table) > num_rows
    THEN SubSeq(table, num_rows + 1, Len(table))
    ELSE table

\* Lines 755-756: the table is cut to its first num_rows rows.
preview_slice(table, num_rows) ==
    IF Len(table) > num_rows
    THEN SubSeq(table, 1, num_rows)
    ELSE table

\* DataTab._render_data.  parquet_file.read(columns=None) asks the data layer
\* for every row of every row group (`requested'); an exception of the read or
\* of the slice becomes the error panel (lines 751-764).  The loop that turns
\* the cells into text (lines 786-798) runs after the try statement: an
\* exception of as_py() leaves _render_data.
render_data(r, num_rows) ==
    IF r.read_raises
    THEN Returned([state |-> "error", requested |-> r.num_rows,
                   header |-> Absent, rows |-> <<>>])
    ELSE LET table == preview_slice(r.table, num_rows)
             num_rows_display == Len(table)
             total_rows == r.num_rows
         IN  IF \E i \in 1..num_rows_display : i \in r.unconvertible
             THEN Raised("ValueError")
             ELSE Returned([state |-> "preview", requested |-> r.num_rows,
                            header |-> <<num_rows_display, total_rows>>,
                            rows |-> [i \in 1..num_rows_display |->
                                        format_value(table[i],
                                                     default_max_length)]])

(***************************************************************************)
(* tui.py: MetadataTab                                                     *)
(***************************************************************************)
MetadataTab_format_size_inclusive(size_bytes) ==
    IF size_bytes <= 1024 THEN <<size_bytes, "bytes">>
    ELSE IF size_bytes <= 1024 * 1024
    THEN <<TwoDecimals(size_bytes, 1024), "KB", Grouped(size_bytes)>>
    ELSE IF size_bytes <= 1024 * 1024 * 1024
    THEN <<TwoDecimals(size_bytes, 1024 * 1024), "MB", Grouped(size_bytes)>>
    ELSE <<TwoDecimals(size_bytes, 1024 * 1024 * 1024), "GB", Grouped(size_bytes)>>

\* MetadataTab._format_size, the tab's own copy.
MetadataTab_format_size(size_bytes) ==
    IF size_bytes < 1024 THEN <<size_bytes, "bytes">>
    ELSE IF size_bytes < 1024 * 1024
    THEN <<TwoDecimals(size_bytes, 1024), "KB", Grouped(size_bytes)>>
    ELSE IF size_bytes < 1024 * 1024 * 1024
    THEN <<TwoDecimals(size_bytes, 1024 * 1024), "MB", Grouped(size_bytes)>>
    ELSE <<TwoDecimals(size_bytes, 1024 * 1024 * 1024), "GB", Grouped(size_bytes)>>

\* The file-level key/value metadata: the footer stores keys and values as
\* bytes.  A text is kept as its runs, <<c, n>> for n times the character c,
\* and the bytes of a text as runs of the bytes of one character: a byte
\* below 0x80 is written as its character, "C3" "A9" are the two bytes of
\* U+00E9, written "E9".
MaxOver == 1
MaxEntries == 1

value_limit == 200

Run(c, n) == [char |-> c, count |-> n]

ByteRun(unit, n) == [bytes |-> unit, count |-> n]

utf8_encode_char(c) == IF c = "E9" THEN <<"C3", "A9">> ELSE <<c>>

\* str.encode("utf-8")
utf8_encode(text) ==
    [i \in 1..Len(text) |->
       ByteRun(utf8_encode_char(text[i].char), text[i].count)]

decode_char(unit) == IF unit = <<"C3", "A9">> THEN "E9" ELSE unit[1]

\* bytes.decode("utf-8") of well-formed bytes
decode(stored) ==
    [i \in 1..Len(stored) |-> Run(decode_char(stored[i].bytes), stored[i].count)]

\* len() of a str
RECURSIVE text_len(_)
text_len(text) ==
    IF text = <<>> THEN 0 ELSE Head(text).count + text_len(Tail(text))

\* text[:stop] for stop >= 0
RECURSIVE text_slice_to(_, _)
text_slice_to(text, stop) ==
    IF text = <<>> \/ stop = 0 THEN <<>>
    ELSE IF Head(text).count >= stop THEN <<Run(Head(text).char, stop)>>
    ELSE <<Head(text)>> \o text_slice_to(Tail(text), stop - Head(text).count)

\* The texts stored as values: short ones and ones around the limit of the
\* view, of the letter a, with or without U+00E9 as first or last character.
ValueLengths ==
    (0..MaxOver) \cup ((value_limit - MaxOver)..(value_limit + MaxOver))

TextOf(first, n, last) ==
    IF n = 0 THEN <<>>
    ELSE IF n = 1 THEN <<Run(first, 1)>>
    ELSE IF n = 2 THEN <<Run(first, 1), Run(last, 1)>>
    ELSE <<Run(first, 1), Run("a", n - 2), Run(last, 1)>>

ValueTexts ==
    { TextOf(first, n, last) :
        first \in {"a", "E9"}, n \in ValueLengths, last \in {"a", "E9"} }

StoredValues == { utf8_encode(text) : text \in ValueTexts }

\* The i-th entry of the metadata dict, which keeps the order of the footer.
Entry(i, value) ==
    [key |-> <<ByteRun(<<"k">>, 1)>>, index |-> i, value |-> value]

\* The opened file with its key/value metadata (`entries' is <<>> for a file
\* that has none: metadata.metadata is then None).
OpenWithMetadata(layout, width, values) ==
    [file_path |-> "Path",
     row_groups |-> PlaceRowGroups(layout, 4),
     num_columns |-> width,
     serialized_size |-> FooterBytes,
     file_size |-> 4 + LayoutBytes(layout) + FooterBytes + 8,
     metadata |-> [i \in 1..Len(values) |-> Entry(i, values[i])]]

metadata_totals_first_row_group(r, rg_idx, col_idx, totals) ==
    IF num_row_groups(r) = 0 THEN totals
    ELSE LET first == total_sizes(get_row_group(r, 0))
         IN  <<totals[1] + first.compressed, totals[2] + first.uncompressed>>

\* Lines 858-867: the sums over every chunk of every row group.
RECURSIVE metadata_totals_from(_, _, _, _)
metadata_totals_from(r, rg_idx, col_idx, totals) ==
    IF rg_idx >= num_row_groups(r) THEN totals
    ELSE LET rg == get_row_group_info(r, rg_idx)
         IN  IF col_idx >= num_columns(rg)
             THEN metadata_totals_from(r, rg_idx + 1, 0, totals)
             ELSE LET col == column(rg, col_idx)
                  IN  metadata_totals_from(
                          r, rg_idx, col_idx + 1,
                          <<totals[1] + col.total_compressed_size,
                            totals[2] + col.total_uncompressed_size>>)

metadata_ratio_unguarded(total_compressed, total_uncompressed) ==
    compression_pct(total_compressed, total_uncompressed)

\* Lines 873-877: the file's compression ratio line.
metadata_ratio(total_compressed, total_uncompressed) ==
    IF total_uncompressed > 0
    THEN compression_pct(total_compressed, total_uncompressed)
    ELSE Absent

\* Lines 888-905: what is shown of one entry.  `annotated' is the number the
\* "(truncated, N bytes total)" line prints.
MetadataEntry(entry) ==
    LET key_str == decode(entry.key)
        value_str == decode(entry.value)
    IN  IF text_len(value_str) > value_limit
        THEN [key |-> key_str, index |-> entry.index,
              shown |-> text_slice_to(value_str, value_limit) \o <<Run(".", 3)>>,
              truncated |-> TRUE,
              annotated |-> text_len(value_str)]
        ELSE [key |-> key_str, index |-> entry.index,
              shown |-> value_str,
              truncated |-> FALSE,
              annotated |-> 0]

\* MetadataTab._render_metadata.  The creator string, format version and row
\* count are not part of the model.
render_metadata(r) ==
    LET totals == metadata_totals_from(r, 0, 0, <<0, 0>>)
        total_compressed == totals[1]
        total_uncompressed == totals[2]
    IN  Returned(
            [state |-> "rendered",
             metadata_size |-> MetadataTab_format_size(r.serialized_size),
             total_columns |-> r.num_columns,
             row_groups |-> num_row_groups(r),
             total_compressed |-> MetadataTab_format_size(total_compressed),
             total_uncompressed |-> MetadataTab_format_size(total_uncompressed),
             ratio |-> metadata_ratio(total_compressed, total_uncompressed),
             no_custom_metadata |-> r.metadata = <<>>,
             custom |-> [i \in 1..Len(r.metadata) |->
                           MetadataEntry(r.metadata[i])]])

(***************************************************************************)
(* tui.py: DatanomyApp                                                     *)
(***************************************************************************)
\* How often the user moves to the data tab in one session.
MaxActivations == 3

\* The panes of the TabbedContent, in the order compose yields them.
TabIds == <<"tab-structure", "tab-schema", "tab-data", "tab-metadata",
            "tab-stats">>

\* A reader with everything the five tabs ask of it.
OpenAll(layout, width, path, table, read_raises, unconvertible) ==
    [file_path |-> path,
     row_groups |-> PlaceRowGroups(layout, 4),
     num_columns |-> width,
     serialized_size |-> FooterBytes,
     file_size |-> 4 + LayoutBytes(layout) + FooterBytes + 8,
     metadata |-> <<>>,
     table |-> table,
     num_rows |-> Len(table),
     read_raises |-> read_raises,
     unconvertible |-> unconvertible]

\* What the compose method of each tab passes to Static (lines 30-32,
\* 716-718 and their like): the tab's render, called once.
tab_compose(r, tab) ==
    CASE tab = "tab-structure" -> render_structure(r)
      [] tab = "tab-schema" -> render_schema(r)
      [] tab = "tab-data" -> render_data(r, default_num_rows)
      [] tab = "tab-metadata" -> render_metadata(r)
      [] tab = "tab-stats" -> render_stats(r)

\* DatanomyApp.compose and the composition of the tabs it yields: every tab
\* is composed when the app is mounted; no compose method has a handler, so
\* an exception of one render ends the app.  `reads' counts the calls of
\* parquet_file.read.
compose(r) ==
    LET tabs == [k \in 1..Len(TabIds) |-> tab_compose(r, TabIds[k])]
    IN  [tabs |-> tabs,
         terminated |-> \E k \in 1..Len(TabIds) : tabs[k].raised,
         reads |-> 1]

(***************************************************************************)
(* cli.py: main                                                            *)
(***************************************************************************)
\* An option that was not given is None; "None" stands for it here, next to
\* the empty string and a non-empty one.
OptionValues == {"None", "", "given"}

\* bool(x) of an option value
Truthy(x) == x # "None" /\ x # ""

\* The file argument: a local path or an s3:// URI.
FileArgs == {[uri |-> FALSE, name |-> "data.parquet"],
             [uri |-> TRUE, name |-> "s3://bucket/data.parquet"]}

\* file.startswith("s3://")
startswith_s3(file) == file.uri

\* What the invocation meets outside the program: whether the command line
\* parses (click exits with 2 on a missing FILE or an unknown option), what
\* the local path leads to, whether the object store delivers the object,
\* whether the bytes it delivers end in a Parquet footer, and whether
\* app.run() returns or raises.
Environments ==
    [argv_parses : BOOLEAN,
     local : {"parquet", "not_parquet", "missing"},
     object_found : BOOLEAN,
     object_parses : BOOLEAN,
     run_raises : BOOLEAN]

\* Path(file)
Path(file) == [type |-> "Path", of |-> file.name]

\* What main does, in order.
Echo(message) == [event |-> "echo", what |-> message]
Construct(class, arg) == [event |-> "construct", what |-> class, arg |-> arg]
RunApp == [event |-> "run", what |-> "DatanomyApp"]

\* An exception: its class and the parts of its message.
Error(type, message) == [type |-> type, message |-> message]

NotAParquetFile == " does not appear to be a Parquet file"

\* ArrowInvalid(f"{file_uri} does not appear to be a Parquet file")
InvalidFormat(path) == Error("ArrowInvalid", <<path, NotAParquetFile>>)

\* ParquetReader(Path(file)) of datanomy.reader.parquet: the path must exist
\* and hold a Parquet file.
ParquetReader_init(file, env) ==
    IF env.local = "missing"
    THEN Raised(Error("FileNotFoundError", <<"File not found: ", file.name>>))
    ELSE IF env.local = "not_parquet" THEN Raised(InvalidFormat(file.name))
    ELSE Returned([file_path |-> "Path", class |-> "ParquetReader"])

\* The store S3ParquetReader.__init__ builds (lines 125-132).
S3Store(access_key_id, secret_access_key, endpoint_url) ==
    [bucket |-> "de-chl",
     endpoint |-> "http://localhost:9000",
     access_key_id |-> "minio",
     secret_access_key |-> "minio123"]

\* obs.get(self.store, file_uri).bytes(): the bytes of the object, or the
\* store's own exception when the object cannot be retrieved.
obs_get(store, file, env) ==
    IF ~env.object_found
    THEN Raised(Error("ObstoreError", <<"Object at location ", file.name,
                                        " not retrieved">>))
    ELSE Returned([parses |-> env.object_parses])

\* pq.ParquetFile(pa.BufferReader(file_content))
ParquetFile(file_content) ==
    IF ~file_content.parses
    THEN Raised(Error("ArrowInvalid",
                      <<"Parquet magic bytes not found in footer">>))
    ELSE Returned("ParquetFile")

open_failure_blanket(error, file) == InvalidFormat(file.name)

\* The except clause of lines 138-141: an ArrowInvalid is raised again with
\* the message of the reader; any other exception passes through.
open_failure(error, file) ==
    IF error.type = "ArrowInvalid" THEN InvalidFormat(file.name) ELSE error

\* S3ParquetReader.__init__: the store is built, the object fetched and its
\* footer read.
S3ParquetReader_init(file, access_key_id, secret_access_key, endpoint_url, env) ==
    LET store == S3Store(access_key_id, secret_access_key, endpoint_url)
        fetched == obs_get(store, file, env)
    IN  IF fetched.raised THEN Raised(open_failure(fetched.error, file))
        ELSE LET parquet_file == ParquetFile(fetched.value)
             IN  IF parquet_file.raised
                 THEN Raised(open_failure(parquet_file.error, file))
                 ELSE Returned([file_path |-> "str",
                                class |-> "S3ParquetReader",
                                store |-> store])

\* Line 33.
is_s3(file, access_key_id, secret_access_key) ==
    startswith_s3(file) \/ (Truthy(access_key_id) /\ Truthy(secret_access_key))

missing_credentials_both(access_key_id, secret_access_key) ==
    ~Truthy(access_key_id) /\ ~Truthy(secret_access_key)

\* Line 39.
missing_credentials(access_key_id, secret_access_key) ==
    ~Truthy(access_key_id) \/ ~Truthy(secret_access_key)

Exit(code, trace, made) == [exit_code |-> code, trace |-> trace, reader |-> made]

\* Lines 51-55: the app is built on the reader and run.
launch(made, trace, env) ==
    IF env.run_raises
    THEN Exit(1, trace \o <<Construct("DatanomyApp", made.class), RunApp,
                            Echo(<<"Error: ", Error("Exception", <<>>)>>)>>,
              made)
    ELSE Exit(0, trace \o <<Construct("DatanomyApp", made.class), RunApp>>, made)

\* main, under click's command: the exit code of the process, the calls made
\* in their order, and the reader that was built.  click.Path(path_type=str)
\* (line 15) does not check that the path exists.  sys.exit(1) of line 41
\* raises SystemExit, which `except Exception' lets through; an exception of
\* a constructor is echoed as f"Error: {e}" (lines 53-55).
main(file, access_key_id, secret_access_key, endpoint_url, env) ==
    IF ~env.argv_parses THEN Exit(2, <<Echo("Usage")>>, [class |-> "none"])
    ELSE IF is_s3(file, access_key_id, secret_access_key)
    THEN IF missing_credentials(access_key_id, secret_access_key)
         THEN Exit(1, <<Echo("Error: S3 access requires credentials")>>,
                   [class |-> "none"])
         ELSE LET built == S3ParquetReader_init(file, access_key_id,
                                                secret_access_key,
                                                endpoint_url, env)
                  trace == <<Construct("S3ParquetReader", file.name)>>
              IN  IF built.raised
                  THEN Exit(1, trace \o <<Echo(<<"Error: ", built.error>>)>>,
                            [class |-> "none"])
                  ELSE launch(built.value, trace, env)
    ELSE LET built == ParquetReader_init(file, env)
             trace == <<Construct("ParquetReader", Path(file))>>
         IN  IF built.raised
             THEN Exit(1, trace \o <<Echo(<<"Error: ", built.error>>)>>,
                       [class |-> "none"])
             ELSE launch(built.value, trace, env)

(***************************************************************************)
(* Operations on the reader                                                *)
(***************************************************************************)
Idle == [op |-> "none"]

\* No file is open.
NoReader == [file_path |-> "none"]

\* reader.get_row_group(i).total_sizes
TotalSizes(i) ==
    /\ i < num_row_groups(reader)
    /\ out' = [op |-> "total_sizes", index |-> i,
               result |-> total_sizes(get_row_group(reader, i))]
    /\ UNCHANGED reader

\* reader.get_row_group(i).has_compression
HasCompression(i) ==
    /\ i < num_row_groups(reader)
    /\ out' = [op |-> "has_compression", index |-> i,
               result |-> has_compression(get_row_group(reader, i))]
    /\ UNCHANGED reader

\* reader.page_index_size
PageIndexSize ==
    /\ out' = [op |-> "page_index_size", result |-> page_index_size(reader)]
    /\ UNCHANGED reader

\* StructureTab.compose: the structure view is rendered.
RenderStructure ==
    /\ out' = [op |-> "structure", result |-> render_structure(reader)]
    /\ UNCHANGED reader

\* SchemaTab.compose: the schema view is rendered.
RenderSchema ==
    /\ out' = [op |-> "schema", result |-> render_schema(reader)]
    /\ UNCHANGED reader

\* StatsTab.compose: the stats view is rendered.
RenderStats ==
    /\ out' = [op |-> "stats", result |-> render_stats(reader)]
    /\ UNCHANGED reader

RenderData_exhausting(num_rows) ==
    /\ out' = [op |-> "data", num_rows |-> num_rows,
               result |-> render_data(reader, num_rows)]
    /\ reader' = [reader EXCEPT !.read_raises = TRUE]

\* DataTab(reader, num_rows).compose: the data preview is rendered.
RenderData(num_rows) ==
    /\ out' = [op |-> "data", num_rows |-> num_rows,
               result |-> render_data(reader, num_rows)]
    /\ UNCHANGED reader

\* DataTab._format_value(value, max_length)
FormatValue(value, max_length) ==
    /\ out' = [op |-> "format_value", value |-> value, max_length |-> max_length,
               result |-> format_value(value, max_length)]
    /\ UNCHANGED reader

\* One run of the command line.
Main(file, access_key_id, secret_access_key, endpoint_url, env) ==
    LET result == main(file, access_key_id, secret_access_key, endpoint_url, env)
    IN  /\ out' = [op |-> "main", file |-> file,
                   access_key_id |-> access_key_id,
                   secret_access_key |-> secret_access_key,
                   endpoint_url |-> endpoint_url,
                   env |-> env,
                   result |-> result]
        /\ reader' = IF result.reader.class = "none" THEN NoReader
                     ELSE [file_path |-> result.reader.file_path]

\* DatanomyApp is mounted: the five tabs are composed, the first is active.
Compose ==
    /\ out' = [op |-> "app", active |-> TabIds[1], data_activations |-> 0,
               result |-> compose(reader)]
    /\ UNCHANGED reader

ActivateRereading(tab) ==
    /\ out.op = "app"
    /\ ~out.result.terminated
    /\ tab # out.active
    /\ out.data_activations < MaxActivations
    /\ out' = [out EXCEPT
                 !.active = tab,
                 !.data_activations = IF tab = "tab-data" THEN @ + 1 ELSE @,
                 !.result.reads = IF tab = "tab-data" THEN @ + 1 ELSE @,
                 !.result.tabs[3] = IF tab = "tab-data"
                                    THEN render_data(reader, default_num_rows)
                                    ELSE @]
    /\ UNCHANGED reader

\* The user moves to another tab: TabbedContent shows the pane that was
\* composed at mount; no method of tui.py runs.
Activate(tab) ==
    /\ out.op = "app"
    /\ ~out.result.terminated
    /\ tab # out.active
    /\ out.data_activations < MaxActivations
    /\ out' = [out EXCEPT
                 !.active = tab,
                 !.data_activations = IF tab = "tab-data" THEN @ + 1 ELSE @]
    /\ UNCHANGED reader

\* MetadataTab.compose: the metadata view is rendered.
RenderMetadata ==
    /\ out' = [op |-> "metadata", result |-> render_metadata(reader)]
    /\ UNCHANGED reader

\* StructureTab._format_size, SchemaTab._format_size or
\* MetadataTab._format_size (size_bytes)
FormatSize(tab, size_bytes) ==
    /\ out' = [op |-> "format_size", tab |-> tab, size_bytes |-> size_bytes,
               result |-> CASE tab = "structure" ->
                                 StructureTab_format_size(size_bytes)
                            [] tab = "schema" ->
                                 SchemaTab_format_size(size_bytes)
                            [] tab = "metadata" ->
                                 MetadataTab_format_size(size_bytes)]
    /\ UNCHANGED reader

(***************************************************************************)
(* Row-group accounting: single-row-group files over all codecs and sizes. *)
(***************************************************************************)
InitSizes ==
    /\ \E shape \in Shapes(1, MaxChunks) :
         \E chunks \in [1..ShapeSum(shape) -> SizeKinds] :
           reader = Open(Layout(shape, chunks), 0, shape[1], "str")
    /\ out = Idle

NextSizes ==
    \/ \E i \in 0..(MaxRowGroups - 1) : TotalSizes(i)
    \/ \E i \in 0..(MaxRowGroups - 1) : HasCompression(i)

SpecSizes == InitSizes /\ [][NextSizes]_vars

\* The sum of f over the chunks of a row group, one chunk at a time in any
\* order: what "each chunk counted once" means.
RECURSIVE SumOver(_, _, _)
SumOver(rg, S, field) ==
    IF S = {} THEN 0
    ELSE LET j == CHOOSE x \in S : TRUE
         IN  (IF field = "compressed"
              THEN rg.columns[j].total_compressed_size
              ELSE rg.columns[j].total_uncompressed_size)
             + SumOver(rg, S \ {j}, field)

SomeCompressed(rg) ==
    \E j \in 1..Len(rg.columns) : rg.columns[j].compression # "UNCOMPRESSED"

LastRowGroup == reader.row_groups[out.index + 1]

\* C1 (as stated): for every row group, total_sizes.uncompressed >=
\* total_sizes.compressed, with equality iff has_compression is false.
C1_Original ==
    out.op = "total_sizes" =>
        /\ out.result.uncompressed >= out.result.compressed
        /\ (out.result.uncompressed = out.result.compressed)
             <=> ~has_compression(LastRowGroup)

\* C1 (amended): a row group in which no chunk is compressed has equal totals;
\* nothing is promised when some chunk is compressed.
C1_UncompressedTotalsEqual ==
    /\ out.op = "has_compression" => (out.result <=> SomeCompressed(LastRowGroup))
    /\ (out.op = "total_sizes" /\ ~SomeCompressed(LastRowGroup)) =>
          out.result.uncompressed = out.result.compressed

C1_Witness ==
    /\ out.op = "total_sizes"
    /\ ~SomeCompressed(LastRowGroup)
    /\ num_columns(LastRowGroup) >= 2
    /\ out.result.compressed >= 2

\* C2: total_sizes is the pair of sums of total_compressed_size and
\* total_uncompressed_size over the chunks 0..num_columns-1, each once, and is
\* (0, 0) for a row group without columns.
C2_TotalSizesAreSums ==
    out.op = "total_sizes" =>
        LET rg == LastRowGroup
            all == 1..Len(rg.columns)
        IN  /\ out.result.compressed = SumOver(rg, all, "compressed")
            /\ out.result.uncompressed = SumOver(rg, all, "uncompressed")
            /\ (num_columns(rg) = 0 =>
                  out.result = [compressed |-> 0, uncompressed |-> 0])

C2_Witness ==
    /\ out.op = "total_sizes"
    /\ num_columns(LastRowGroup) = MaxChunks
    /\ out.result.compressed = 4
    /\ out.result.uncompressed = 5

C2_WitnessEmpty ==
    /\ out.op = "total_sizes"
    /\ num_columns(LastRowGroup) = 0

(***************************************************************************)
(* The structure view: files of up to MaxRowGroups row groups, with or     *)
(* without bytes between the last chunk and the footer, read by either     *)
(* reader.                                                                 *)
(***************************************************************************)
InitStructure ==
    /\ \E shape \in ShapesUpTo(MaxRowGroups, MaxChunks),
          gap \in 0..MaxPageIndexBytes, path \in {"Path", "str"} :
         \E chunks \in [1..ShapeSum(shape) -> StructureKinds] :
           reader = Open(Layout(shape, chunks), gap,
                         IF shape = <<>> THEN 0 ELSE shape[1], path)
    /\ out = Idle

NextStructure ==
    \/ PageIndexSize
    \/ RenderStructure

SpecStructure == InitStructure /\ [][NextStructure]_vars

(***************************************************************************)
(* The schema and stats views: files whose row groups may or may not agree *)
(* on their column count.                                                  *)
(***************************************************************************)
InitAggregate ==
    /\ \E shape \in ShapesUpTo(MaxRowGroups, MaxChunks) :
         \E width \in SchemaWidths(shape),
            chunks \in [1..ShapeSum(shape) -> AggregateKinds] :
           reader = Open(Layout(shape, chunks), 0, width, "Path")
    /\ out = Idle

NextAggregate ==
    \/ RenderSchema
    \/ RenderStats

SpecAggregate == InitAggregate /\ [][NextAggregate]_vars

(***************************************************************************)
(* The data preview: files of up to MaxRows rows, previewed with any row   *)
(* cap, the default one included.                                          *)
(***************************************************************************)
RowCaps == (0..(MaxRows + 1)) \cup {default_num_rows}

InitData ==
    /\ \E n \in 0..MaxRows, read_raises \in BOOLEAN :
         \E table \in [1..n -> PreviewCells] :
           reader = OpenData(table, read_raises)
    /\ out = Idle

NextData == \E num_rows \in RowCaps : RenderData(num_rows)

SpecData == InitData /\ [][NextData]_vars

(***************************************************************************)
(* The metadata view: files of at most one row group and one chunk, with   *)
(* up to MaxEntries key/value entries.                                     *)
(***************************************************************************)
\* Chunks that differ in codec and in whether a size is zero.
RatioKinds ==
    { Kind("UNCOMPRESSED", 1, 1, 0, FALSE, FALSE, FALSE, NoStatistics),
      Kind("SNAPPY", 1, 2, 0, FALSE, FALSE, FALSE, NoStatistics),
      Kind("SNAPPY", 1, 0, 0, FALSE, FALSE, FALSE, NoStatistics),
      Kind("SNAPPY", 0, 0, 0, FALSE, FALSE, FALSE, NoStatistics) }

InitMetadata ==
    /\ \E shape \in ShapesUpTo(1, 1), n \in 0..MaxEntries :
         \E chunks \in [1..ShapeSum(shape) -> RatioKinds],
            values \in [1..n -> StoredValues] :
           reader = OpenWithMetadata(Layout(shape, chunks),
                                     IF shape = <<>> THEN 0 ELSE shape[1],
                                     values)
    /\ out = Idle

NextMetadata == RenderMetadata

SpecMetadata == InitMetadata /\ [][NextMetadata]_vars

(***************************************************************************)
(* The compression ratios of the structure, schema and metadata views:     *)
(* files whose chunks may report a size of zero.                           *)
(***************************************************************************)
InitRatio ==
    /\ \E shape \in ShapesUpTo(MaxRowGroups, MaxChunks) :
         \E width \in SchemaWidths(shape),
            chunks \in [1..ShapeSum(shape) -> RatioKinds] :
           reader = OpenWithMetadata(Layout(shape, chunks), width, <<>>)
    /\ out = Idle

NextRatio ==
    \/ RenderStructure
    \/ RenderSchema
    \/ RenderMetadata

SpecRatio == InitRatio /\ [][NextRatio]_vars

(***************************************************************************)
(* The formatting helpers, which need no file.                             *)
(***************************************************************************)
InitFormat ==
    /\ reader = NoReader
    /\ out = Idle

\* Byte counts around each threshold of _format_size, the sizes the tests
\* format, a tie of the rounding (1152 bytes are 1.125 KB), and the largest
\* counts a 32-bit integer holds.
MaxOffset == 3

SizeSamples ==
    { 500, 1152, 2048, 5 * 1024 * 1024 }
    \cup (0..MaxOffset)
    \cup { t + k : t \in {1024, 1024 * 1024, 1024 * 1024 * 1024,
                         1024 * 1024 * 1024 + 512 * 1024 * 1024},
                  k \in (-MaxOffset)..MaxOffset }
    \cup { (1024 * 1024 * 1024 - 1) + 1024 * 1024 * 1024 - k : k \in 0..MaxOffset }

NextFormat ==
    \/ \E value \in Values, max_length \in 0..(MaxValueLen + 1) :
         FormatValue(value, max_length)
    \/ \E tab \in {"structure", "schema", "metadata"}, size_bytes \in SizeSamples :
         FormatSize(tab, size_bytes)

SpecFormat == InitFormat /\ [][NextFormat]_vars

(***************************************************************************)
(* The column grid of the structure view: files of one row group with up   *)
(* to MaxExtra columns more than the view shows, each column of a size of  *)
(* its own.                                                                *)
(***************************************************************************)
MaxExtra == 2

\* The chunk of column j (0-based) of a wide row group.
GridKind(codec, j) ==
    IF codec = "UNCOMPRESSED"
    THEN Kind("UNCOMPRESSED", j + 1, j + 1, 0, FALSE, FALSE, FALSE, NoStatistics)
    ELSE Kind(codec, j + 1, j + 2, 0, FALSE, FALSE, FALSE, NoStatistics)

InitGrid ==
    /\ \E n \in 0..(max_cols_to_show + MaxExtra),
          codec \in {"UNCOMPRESSED", "SNAPPY"},
          gap \in 0..MaxPageIndexBytes :
         reader = Open(<<[j \in 1..n |-> GridKind(codec, j - 1)]>>, gap, n, "Path")
    /\ out = Idle

NextGrid == RenderStructure

SpecGrid == InitGrid /\ [][NextGrid]_vars

(***************************************************************************)
(* The row-group summary of the structure view: single-row-group files     *)
(* whose footer gives the row group a total_byte_size at most MaxSkew away *)
(* from the sum of its chunks' uncompressed sizes.  The field is written   *)
(* by the file's writer next to the chunks' sizes; the reader takes it as  *)
(* it is.                                                                  *)
(***************************************************************************)
MaxSkew == 1

ByteSizeKinds ==
    { Kind("UNCOMPRESSED", 1, 1, 0, FALSE, FALSE, FALSE, NoStatistics),
      Kind("SNAPPY", 1, 2, 0, FALSE, FALSE, FALSE, NoStatistics),
      Kind("SNAPPY", 2, 1, 0, FALSE, FALSE, FALSE, NoStatistics) }

\* The reader of a file like r whose row group i (1-based) has n as its
\* total_byte_size.
WithTotalByteSize(r, i, n) ==
    [r EXCEPT !.row_groups[i].total_byte_size = n]

InitByteSize ==
    /\ \E shape \in Shapes(1, MaxChunks) :
         \E chunks \in [1..ShapeSum(shape) -> ByteSizeKinds] :
           \E n \in (KindUncompressedBytes(chunks) - MaxSkew)
                      ..(KindUncompressedBytes(chunks) + MaxSkew) :
             /\ n >= 0
             /\ reader = WithTotalByteSize(
                             Open(Layout(shape, chunks), 0, shape[1], "Path"),
                             1, n)
    /\ out = Idle

NextByteSize ==
    \/ RenderStructure
    \/ TotalSizes(0)
    \/ HasCompression(0)

SpecByteSize == InitByteSize /\ [][NextByteSize]_vars

(***************************************************************************)
(* The app: files of up to MaxRowGroups row groups opened by either        *)
(* reader, whose rows may fail to be read or to be converted; the tabs are *)
(* composed and the user moves between them.                               *)
(***************************************************************************)
AppKinds ==
    { Kind("UNCOMPRESSED", 1, 1, 0, FALSE, FALSE, TRUE, Stats(TRUE, FALSE, FALSE)),
      Kind("SNAPPY", 1, 2, 0, FALSE, FALSE, FALSE, NoStatistics) }

AppTables == { <<>>, <<Value(<<"a">>), None>> }

InitApp ==
    /\ \E shape \in ShapesUpTo(MaxRowGroups, MaxChunks - 1),
          path \in {"Path", "str"},
          table \in AppTables, read_raises \in BOOLEAN :
         \E width \in SchemaWidths(shape),
            chunks \in [1..ShapeSum(shape) -> AppKinds],
            unconvertible \in SUBSET (1..(IF table = <<>> THEN 0 ELSE 1)) :
           reader = OpenAll(Layout(shape, chunks), width, path, table,
                            read_raises, unconvertible)
    /\ out = Idle

NextApp ==
    \/ RenderStructure
    \/ RenderSchema
    \/ RenderData(default_num_rows)
    \/ RenderMetadata
    \/ RenderStats
    \/ Compose
    \/ \E k \in 1..Len(TabIds) : Activate(TabIds[k])

SpecApp == InitApp /\ [][NextApp]_vars

(***************************************************************************)
(* The command line: every combination of file argument, options and       *)
(* surroundings.                                                           *)
(***************************************************************************)
InitCli ==
    /\ reader = NoReader
    /\ out = Idle

NextCli ==
    \E file \in FileArgs, access_key_id \in OptionValues,
       secret_access_key \in OptionValues, endpoint_url \in {"None", "given"},
       env \in Environments :
        Main(file, access_key_id, secret_access_key, endpoint_url, env)

SpecCli == InitCli /\ [][NextCli]_vars

(***************************************************************************)
(* What the properties below say of a file, stated on the footer itself.   *)
(***************************************************************************)
Positions(r) ==
    { <<i, j>> \in (1..Len(r.row_groups)) \X (1..MaxChunks + 1) :
        j <= Len(r.row_groups[i].columns) }

ChunkAt(r, p) == r.row_groups[p[1]].columns[p[2]]

\* All row groups have the same number of columns.
Consistent(r) ==
    \A i, k \in 1..Len(r.row_groups) :
        Len(r.row_groups[i].columns) = Len(r.row_groups[k].columns)

\* The sum of a position's chunk sizes over the row groups in S.
RECURSIVE PositionSum(_, _, _)
PositionSum(r, S, pos) ==
    IF S = {} THEN <<0, 0>>
    ELSE LET i == CHOOSE x \in S : TRUE
             rest == PositionSum(r, S \ {i}, pos)
             c == r.row_groups[i].columns[pos + 1]
         IN  <<rest[1] + c.total_compressed_size,
               rest[2] + c.total_uncompressed_size>>

\* The sum of a position's chunk sizes over the row groups that have it.
PositionSumOver(r, pos) ==
    PositionSum(r, { i \in 1..Len(r.row_groups) :
                       pos + 1 <= Len(r.row_groups[i].columns) }, pos)

\* The last column chunk of the last row group.
LastChunk(r) ==
    LET rg == r.row_groups[Len(r.row_groups)]
    IN  rg.columns[Len(rg.columns)]

\* Where the bytes of a chunk start and end: at its dictionary page when it
\* has one, else at its first data page, and total_compressed_size further.
ChunkStart(c) ==
    IF c.dictionary_page_offset >= 0 THEN c.dictionary_page_offset
    ELSE c.data_page_offset

ChunkEnd(c) == ChunkStart(c) + c.total_compressed_size

FooterStart(r) == r.file_size - r.serialized_size - 8

SomeChunk(r, P(_)) == \E p \in Positions(r) : P(ChunkAt(r, p))

HasColumnIndex(c) == c.has_column_index
HasOffsetIndex(c) == c.has_offset_index
HasAnIndex(c) == c.has_column_index \/ c.has_offset_index
CarriesMinMax(c) == c.is_stats_set /\ c.statistics.has_min_max
CarriesNullCount(c) == c.is_stats_set /\ c.statistics.has_null_count
CarriesDistinctCount(c) == c.is_stats_set /\ c.statistics.has_distinct_count
CarriesAStatistic(c) ==
    CarriesMinMax(c) \/ CarriesNullCount(c) \/ CarriesDistinctCount(c)

Rendered(op) == out.op = op /\ ~out.result.raised

Sections == out.result.sections

KindsAt(kind) == { k \in 1..Len(Sections) : Sections[k].kind = kind }

(***************************************************************************)
(* Properties of the schema and stats views (SpecAggregate)                *)
(***************************************************************************)
\* C3 (as stated): when all row groups have the same column count the schema
\* view's aggregate of a column position is the sum of that position's chunk
\* sizes over all row groups; when they disagree the aggregation fails with a
\* SchemaInconsistency error and no aggregate is produced.
C3_Original ==
    out.op = "schema" =>
        IF Consistent(reader)
        THEN /\ ~out.result.raised
             /\ \A k \in 1..Len(out.result.value.columns) :
                  LET panel == out.result.value.columns[k]
                  IN  panel.sizes =>
                        panel.total = PositionSum(reader, 1..Len(reader.row_groups),
                                                  panel.position)
        ELSE /\ out.result.raised
             /\ out.result.error = "SchemaInconsistency"

\* C4 (as stated): when row groups disagree on their column count, the schema
\* view and the stats view each render, without raising, an "aggregation
\* unavailable" state.
C4_Original ==
    (out.op \in {"schema", "stats"} /\ ~Consistent(reader)) =>
        /\ ~out.result.raised
        /\ out.result.value.state = "aggregation unavailable"

\* C10 (as stated): when no chunk of the file carries min/max, a null count
\* or a distinct count, the stats view is the single "no statistics" panel
\* and holds no per-column record.
C10_Original ==
    (out.op = "stats" /\ ~SomeChunk(reader, CarriesAStatistic)) =>
        /\ ~out.result.raised
        /\ out.result.value.state = "no_statistics"
        /\ out.result.value.columns = <<>>

\* Every chunk of column position pos has its statistics set and carries
\* num_values alone.
OnlyNumValues(r, pos) ==
    /\ Len(r.row_groups) >= 1
    /\ \A i \in 1..Len(r.row_groups) :
         LET c == r.row_groups[i].columns[pos + 1]
         IN  c.is_stats_set /\ ~CarriesAStatistic(c)

\* C11 (as stated): a column whose chunks carry num_values alone is rendered
\* in the stats view as "No statistics available", with no record and none of
\* the optional fields.
C11_Original ==
    (Rendered("stats") /\ out.result.value.state = "rendered") =>
        \A k \in 1..Len(out.result.value.columns) :
            LET panel == out.result.value.columns[k]
            IN  OnlyNumValues(reader, panel.position) =>
                  /\ panel.no_statistics_available
                  /\ panel.records = <<>>

(***************************************************************************)
(* Properties of page_index_size and the structure view (SpecStructure)    *)
(***************************************************************************)
\* C5 (as stated): page_index_size is 0 for a file without row groups, and
\* for every other file it returns, without raising, (file_size -
\* metadata_size - 8) - (data_page_offset + total_compressed_size) of the
\* last chunk of the last row group.
C5_Original ==
    out.op = "page_index_size" =>
        IF Len(reader.row_groups) = 0
        THEN out.result = Returned(0)
        ELSE /\ ~out.result.raised
             /\ out.result.value =
                  FooterStart(reader)
                  - (LastChunk(reader).data_page_offset
                     + LastChunk(reader).total_compressed_size)

\* C6 (as stated): for a single-row-group file without page-index structures,
\* the footer directly following the bytes of the last chunk, page_index_size
\* is 0, whatever pages the last chunk is made of.
C6_Original ==
    ( /\ out.op = "page_index_size"
      /\ Len(reader.row_groups) = 1
      /\ Len(reader.row_groups[1].columns) >= 1
      /\ ~SomeChunk(reader, HasAnIndex)
      /\ ChunkEnd(LastChunk(reader)) = FooterStart(reader) ) =>
        out.result = Returned(0)

\* C7: when page_index_size is negative or zero, the structure view holds no
\* page-index panel, and so no formatted page-index size.
C7_NoPanelUnlessPositive ==
    Rendered("structure") =>
        (page_index_size(reader).value <= 0 =>
            /\ KindsAt("page_index") = {}
            /\ \A k \in 1..Len(Sections) : "total_size" \notin DOMAIN Sections[k])

C7_Witness ==
    /\ Rendered("structure")
    /\ page_index_size(reader).value < 0
    /\ SomeChunk(reader, HasColumnIndex)
    /\ Len(reader.row_groups) = MaxRowGroups

\* C8: the structure view holds the page-index panel iff page_index_size > 0
\* and some chunk of some row group has a column index or an offset index;
\* the panel, when there, comes once, after every row-group panel and before
\* the footer panel.
C8_PanelIffSizeAndIndex ==
    Rendered("structure") =>
        /\ (KindsAt("page_index") # {})
             <=> (page_index_size(reader).value > 0 /\ SomeChunk(reader, HasAnIndex))
        /\ Cardinality(KindsAt("page_index")) <= 1
        /\ Cardinality(KindsAt("row_group")) = Len(reader.row_groups)
        /\ Cardinality(KindsAt("footer")) = 1
        /\ \A k \in KindsAt("page_index") :
             /\ \A g \in KindsAt("row_group") : g < k
             /\ \A f \in KindsAt("footer") : k < f

C8_Witness ==
    /\ Rendered("structure")
    /\ KindsAt("page_index") # {}
    /\ Len(reader.row_groups) = MaxRowGroups
    /\ ~LastChunk(reader).has_column_index
    /\ ~LastChunk(reader).has_offset_index

C8_WitnessNoIndex ==
    /\ Rendered("structure")
    /\ page_index_size(reader).value > 0
    /\ KindsAt("page_index") = {}

\* C9: when the structure view scans for presence, each of the five flags is
\* true after the scan iff some chunk of some row group carries that index or
\* statistic, and a flag that is true after some chunk is true after every
\* later one.
C9_FlagsAreExistence ==
    (Rendered("structure") /\ out.result.scanned) =>
        /\ out.result.flags =
             [has_col_index |-> SomeChunk(reader, HasColumnIndex),
              has_off_index |-> SomeChunk(reader, HasOffsetIndex),
              has_min_max |-> SomeChunk(reader, CarriesMinMax),
              has_null_count |-> SomeChunk(reader, CarriesNullCount),
              has_distinct_count |-> SomeChunk(reader, CarriesDistinctCount)]
        /\ \A n \in 0..(Cardinality(Positions(reader)) - 1) :
             LET before == scan_steps(reader, 0, 0, NoFlags, n)
                 after == scan_steps(reader, 0, 0, NoFlags, n + 1)
             IN  \A f \in DOMAIN NoFlags : before[f] => after[f]
        /\ out.result.flags =
             scan_steps(reader, 0, 0, NoFlags, Cardinality(Positions(reader)))

C9_Witness ==
    /\ Rendered("structure")
    /\ out.result.scanned
    /\ Cardinality(Positions(reader)) = MaxChunks
    /\ Len(reader.row_groups) = MaxRowGroups
    /\ Len(reader.row_groups[1].columns) >= 1
    /\ reader.row_groups[1].columns[1].has_column_index
    /\ ~LastChunk(reader).has_column_index
    /\ out.result.flags.has_col_index
    /\ out.result.flags.has_min_max
    /\ ~out.result.flags.has_distinct_count

(***************************************************************************)
(* Properties of the data preview (SpecData)                               *)
(***************************************************************************)
Min(a, b) == IF a < b THEN a ELSE b

Previewed == out.op = "data" /\ out.result.value.state = "preview"

C12_WitnessShortFile ==
    /\ Previewed
    /\ out.num_rows = default_num_rows
    /\ Len(reader.table) = MaxRows
    /\ Len(out.result.value.rows) = MaxRows

\* C13 (as stated): one render of the data preview asks the data layer for
\* at most row cap rows, whatever the file's row count.
C13_Original ==
    out.op = "data" => out.result.value.requested <= out.num_rows

(***************************************************************************)
(* Properties of the metadata view (SpecMetadata)                          *)
(***************************************************************************)
\* The i-th character of a text, and of the text some bytes encode.
RECURSIVE CharAt(_, _)
CharAt(text, i) ==
    IF i <= Head(text).count THEN Head(text).char
    ELSE CharAt(Tail(text), i - Head(text).count)

RECURSIVE CharCount(_)
CharCount(stored) ==
    IF stored = <<>> THEN 0 ELSE Head(stored).count + CharCount(Tail(stored))

RECURSIVE ByteCount(_)
ByteCount(stored) ==
    IF stored = <<>> THEN 0
    ELSE Len(Head(stored).bytes) * Head(stored).count + ByteCount(Tail(stored))

RECURSIVE StoredCharAt(_, _)
StoredCharAt(stored, i) ==
    IF i <= Head(stored).count
    THEN (IF Len(Head(stored).bytes) = 2 THEN "E9" ELSE Head(stored).bytes[1])
    ELSE StoredCharAt(Tail(stored), i - Head(stored).count)

\* C15 (as stated): in the metadata view a value of more than 200 characters
\* is shown as its first 200 characters followed by "..." and annotated
\* "(truncated, N bytes total)" with N the byte length of the stored value;
\* a value of at most 200 characters is shown whole and is not annotated.
C15_Original ==
    out.op = "metadata" =>
        \A i \in 1..Len(out.result.value.custom) :
            LET entry == out.result.value.custom[i]
                stored == reader.metadata[i].value
            IN  IF CharCount(stored) > value_limit
                THEN /\ entry.truncated
                     /\ text_len(entry.shown) = value_limit + 3
                     /\ \A k \in 1..value_limit :
                          CharAt(entry.shown, k) = StoredCharAt(stored, k)
                     /\ \A k \in (value_limit + 1)..(value_limit + 3) :
                          CharAt(entry.shown, k) = "."
                     /\ entry.annotated = ByteCount(stored)
                ELSE /\ ~entry.truncated
                     /\ text_len(entry.shown) = CharCount(stored)
                     /\ \A k \in 1..CharCount(stored) :
                          CharAt(entry.shown, k) = StoredCharAt(stored, k)

(***************************************************************************)
(* Properties of the compression ratios (SpecRatio)                        *)
(***************************************************************************)
\* A ratio place of a view whose denominator is u: a ratio is there only
\* over a positive u, and is the one over u.
RatioOk(ratio, u) ==
    /\ u = 0 => ratio = Absent
    /\ ratio # Absent => (u > 0 /\ Len(ratio) = 2 /\ ratio[2] = u)

RECURSIVE UncompressedOver(_, _)
UncompressedOver(r, S) ==
    IF S = {} THEN 0
    ELSE LET p == CHOOSE x \in S : TRUE
         IN  ChunkAt(r, p).total_uncompressed_size + UncompressedOver(r, S \ {p})

\* C17: no view divides by zero: the ratio of a row-group summary, of a
\* column panel, of a schema column and of the metadata view is computed
\* only over an uncompressed size > 0, and is left out when that size is 0.
C17_RatioOnlyOverPositive ==
    /\ out.op \in {"schema", "metadata"} => ~out.result.raised
    /\ Rendered("structure") =>
          \A k \in KindsAt("row_group") :
              LET panel == Sections[k]
                  rg == reader.row_groups[panel.index + 1]
              IN  /\ RatioOk(panel.ratio, rg.total_byte_size)
                  /\ \A row \in DOMAIN panel.grid, c \in 1..cols_per_row :
                       LET cell == panel.grid[row][c]
                           j == (row - 1) * cols_per_row + c
                       IN  cell.kind = "column" =>
                             RatioOk(cell.ratio,
                                     rg.columns[j].total_uncompressed_size)
    /\ Rendered("schema") =>
          \A k \in 1..Len(out.result.value.columns) :
              LET panel == out.result.value.columns[k]
              IN  panel.sizes =>
                    RatioOk(panel.ratio,
                            PositionSumOver(reader, panel.position)[2])
    /\ Rendered("metadata") =>
          RatioOk(out.result.value.ratio,
                  UncompressedOver(reader, Positions(reader)))

C17_Witness ==
    /\ Rendered("metadata")
    /\ Cardinality(Positions(reader)) = MaxChunks
    /\ \E p \in Positions(reader) : ChunkAt(reader, p).total_compressed_size > 0
    /\ UncompressedOver(reader, Positions(reader)) = 0
    /\ out.result.value.ratio = Absent

C17_WitnessStructure ==
    /\ Rendered("structure")
    /\ \E k \in KindsAt("row_group") :
         /\ Sections[k].compressed # Absent
         /\ Sections[k].ratio = Absent
         /\ Sections[k].columns >= 2
    /\ \E k \in KindsAt("row_group") : Sections[k].ratio # Absent

C17_WitnessSchema ==
    /\ Rendered("schema")
    /\ \E k \in 1..Len(out.result.value.columns) :
         /\ out.result.value.columns[k].compressed # Absent
         /\ out.result.value.columns[k].ratio = Absent
    /\ \E k \in 1..Len(out.result.value.columns) :
         out.result.value.columns[k].ratio # Absent

(***************************************************************************)
(* Properties of the formatting helpers (SpecFormat)                       *)
(***************************************************************************)
EndsWithEllipsis(s) ==
    /\ Len(s) >= 3
    /\ \A i \in (Len(s) - 2)..Len(s) : s[i] = "."

\* C14 (as stated): a null value yields "NULL"; a string form of at most
\* max_length characters is returned unchanged; a longer one is cut and ends
\* with "..."; the result never has more than max_length characters.
C14_Original ==
    out.op = "format_value" =>
        /\ out.value.is_none => out.result = NULL
        /\ (~out.value.is_none /\ Len(out.value.str) <= out.max_length) =>
              out.result = out.value.str
        /\ (~out.value.is_none /\ Len(out.value.str) > out.max_length) =>
              EndsWithEllipsis(out.result)
        /\ Len(out.result) <= out.max_length

\* C14 (amended): as stated, but the length bound holds for non-null values
\* and max_length >= 3 only; there a cut result is the first max_length - 3
\* characters of the string form followed by "...", max_length characters
\* in all.
C14_CutToMaxLengthFromThree ==
    out.op = "format_value" =>
        /\ out.value.is_none => out.result = NULL
        /\ (~out.value.is_none /\ Len(out.value.str) <= out.max_length) =>
              out.result = out.value.str
        /\ (~out.value.is_none /\ Len(out.value.str) > out.max_length) =>
              /\ EndsWithEllipsis(out.result)
              /\ out.max_length >= 3 =>
                   /\ Len(out.result) = out.max_length
                   /\ \A i \in 1..(out.max_length - 3) :
                        out.result[i] = out.value.str[i]
        /\ (~out.value.is_none /\ out.max_length >= 3) =>
              Len(out.result) <= out.max_length

C14_Witness ==
    /\ out.op = "format_value"
    /\ ~out.value.is_none
    /\ out.max_length = MaxValueLen - 1
    /\ Len(out.value.str) = MaxValueLen
    /\ out.value.str[1] = "a"
    /\ out.result[1] = "a"

\* The number a grouped byte count reads as; every group after the first has
\* three digits.
RECURSIVE GroupValue(_)
GroupValue(g) ==
    IF Len(g) = 1 THEN g[1]
    ELSE GroupValue(SubSeq(g, 1, Len(g) - 1)) * 1000 + g[Len(g)]

WellGrouped(g) ==
    /\ Len(g) >= 1
    /\ g[1] \in 0..999
    /\ Len(g) > 1 => g[1] >= 1
    /\ \A i \in 2..Len(g) : g[i] \in 0..999

Abs(x) == IF x < 0 THEN -x ELSE x

\* h hundredths is a nearest two-decimal value of n / d: |h * d - 100 * n| <=
\* d / 2.  With n = w * d + a * e + b, e = d / 1024, and h = 100 * w + f, the
\* difference is e * (1024 * f - 100 * a) - 100 * b, which is compared in
\* units that fit 32 bits.
Nearest(h, n, d) ==
    LET w == n \div d
        f == h - 100 * w
        e == d \div 1024
        a == (n % d) \div e
        b == (n % d) % e
        k == 1024 * f - 100 * a
    IN  /\ f \in 0..100
        /\ k \in (-512)..612
        /\ Abs(e * k - 100 * b) <= 512 * e

\* What the string of a byte count in the bucket of divisor d and unit u is.
ScaledForm(s, n, d, u) ==
    /\ Len(s) = 3
    /\ Nearest(s[1], n, d)
    /\ s[2] = u
    /\ WellGrouped(s[3])
    /\ GroupValue(s[3]) = n

C16_WitnessThreshold ==
    /\ out.op = "format_size"
    /\ out.tab = "schema"
    /\ out.size_bytes = 1024 * 1024 - 1
    /\ out.result = <<102400, "KB", <<1, 48, 575>>>>

C16_WitnessTie ==
    /\ out.op = "format_size"
    /\ out.tab = "structure"
    /\ out.size_bytes = 1152
    /\ out.result = <<112, "KB", <<1, 152>>>>

(***************************************************************************)
(* Properties of the command line (SpecCli)                                *)
(***************************************************************************)
Trace == out.result.trace

Constructions(class) ==
    { k \in 1..Len(Trace) :
        Trace[k].event = "construct" /\ Trace[k].what = class }

AppRan == \E k \in 1..Len(Trace) : Trace[k].event = "run"

\* An option that was not given, or given empty.
Missing(x) == x = "None" \/ x = ""

\* C18 (as stated): the exit code is 0 when the app runs to completion, 1 on
\* a caught runtime error (invalid format, missing credentials), and 2 when
\* the local path argument does not exist, the failure then coming from
\* argument validation before any reader is constructed.
C18_Original ==
    (out.op = "main" /\ out.env.argv_parses) =>
        /\ (AppRan /\ ~out.env.run_raises) => out.result.exit_code = 0
        /\ (~out.file.uri /\ Constructions("ParquetReader") # {}
              /\ out.env.local = "not_parquet") => out.result.exit_code = 1
        /\ (out.file.uri /\ (Missing(out.access_key_id)
                               \/ Missing(out.secret_access_key))) =>
              out.result.exit_code = 1
        /\ (~out.file.uri /\ out.env.local = "missing") =>
              /\ out.result.exit_code = 2
              /\ Constructions("ParquetReader") = {}
              /\ Constructions("S3ParquetReader") = {}

\* C19: when the file argument is an s3:// URI and the access key id or the
\* secret access key is missing, the command reports the error and exits with
\* code 1; no reader is constructed and the app is not started.
C19_NoReaderWithoutCredentials ==
    ( /\ out.op = "main"
      /\ out.env.argv_parses
      /\ out.file.uri
      /\ (Missing(out.access_key_id) \/ Missing(out.secret_access_key)) ) =>
        /\ out.result.exit_code = 1
        /\ Len(Trace) = 1
        /\ Trace[1].event = "echo"
        /\ Constructions("S3ParquetReader") = {}
        /\ Constructions("ParquetReader") = {}
        /\ Constructions("DatanomyApp") = {}
        /\ ~AppRan
        /\ reader = NoReader

C19_Witness ==
    /\ out.op = "main"
    /\ out.env.argv_parses
    /\ out.file.uri
    /\ out.access_key_id = "given"
    /\ out.secret_access_key = "None"
    /\ out.env.object_found
    /\ ~out.env.run_raises
    /\ out.result.exit_code = 1

\* C20 (as stated): the S3 reader is used iff the file argument is an s3://
\* URI; for a local path exactly one ParquetReader is constructed, on
\* Path(file), and no S3ParquetReader, whatever credential options are given.
C20_Original ==
    (out.op = "main" /\ out.env.argv_parses) =>
        /\ Constructions("S3ParquetReader") # {} => out.file.uri
        /\ (out.file.uri /\ ~Missing(out.access_key_id)
                          /\ ~Missing(out.secret_access_key)) =>
              Constructions("S3ParquetReader") # {}
        /\ ~out.file.uri =>
              /\ Cardinality(Constructions("ParquetReader")) = 1
              /\ \A k \in Constructions("ParquetReader") :
                   Trace[k].arg = Path(out.file)
              /\ Constructions("S3ParquetReader") = {}

\* The errors the command echoed, in their order.
EchoedErrors ==
    { k \in 1..Len(Trace) :
        /\ Trace[k].event = "echo"
        /\ Len(Trace[k].what) = 2
        /\ Trace[k].what[1] = "Error: " }

SaysNotAParquetFile(k) ==
    \E j \in 1..Len(Trace[k].what[2].message) :
        Trace[k].what[2].message[j] = NotAParquetFile

\* The invocation reached the constructor of the S3 reader.
OpenedRemote == out.op = "main" /\ Constructions("S3ParquetReader") # {}

OpenedLocal == out.op = "main" /\ Constructions("ParquetReader") # {}

\* C21: a stream that does not parse as a Parquet footer fails with an
\* invalid-format error whose message holds the offending path and "does not
\* appear to be a Parquet file", and the command exits with 1; a failure to
\* retrieve the object is never reported as this invalid-format error.
C21_InvalidFormatNamesPath ==
    /\ ( \/ (OpenedRemote /\ out.env.object_found /\ ~out.env.object_parses)
         \/ (OpenedLocal /\ out.env.local = "not_parquet") ) =>
          /\ out.result.exit_code = 1
          /\ ~AppRan
          /\ Cardinality(EchoedErrors) = 1
          /\ \A k \in EchoedErrors :
               /\ Trace[k].what[2].type = "ArrowInvalid"
               /\ Trace[k].what[2].message = <<out.file.name, NotAParquetFile>>
    /\ (OpenedRemote /\ ~out.env.object_found) =>
          /\ out.result.exit_code = 1
          /\ \A k \in EchoedErrors :
               /\ Trace[k].what[2].type # "ArrowInvalid"
               /\ ~SaysNotAParquetFile(k)

C21_Witness ==
    /\ OpenedRemote
    /\ out.file.uri
    /\ out.env.object_found
    /\ ~out.env.object_parses
    /\ out.result.exit_code = 1
    /\ \E k \in EchoedErrors : SaysNotAParquetFile(k)

C21_WitnessRetrieval ==
    /\ OpenedRemote
    /\ ~out.env.object_found
    /\ ~out.env.object_parses
    /\ EchoedErrors # {}

(***************************************************************************)
(* Properties of the app (SpecApp)                                         *)
(***************************************************************************)
Composed == out.op = "app"

TabOf(id) == out.result.tabs[CHOOSE k \in 1..Len(TabIds) : TabIds[k] = id]

\* C22 (as stated): a failure while rendering one tab, for the data tab a
\* failure of the read or of the conversion of a previewed cell, is caught at
\* that tab and shown as an inline error panel; it does not end the session
\* and the other tabs remain rendered.
C22_Original ==
    Composed =>
        /\ ~out.result.terminated
        /\ \A k \in 1..Len(TabIds) : ~out.result.tabs[k].raised
        /\ (reader.read_raises \/ reader.unconvertible # {}) =>
              TabOf("tab-data").value.state = "error"

\* The session ended by the conversion of a cell alone.
C22_EndedByCell ==
    /\ Composed
    /\ out.result.terminated
    /\ TabOf("tab-data") = Raised("ValueError")
    /\ \A k \in 1..Len(TabIds) :
         TabIds[k] # "tab-data" => ~out.result.tabs[k].raised

(***************************************************************************)
(* Properties of the column grid (SpecGrid)                                *)
(***************************************************************************)
\* The cell of a grid at position p, counted row by row from 0.
CellAt(grid, p) == grid[(p \div 3) + 1][(p % 3) + 1]

GridPositions(grid) == 0..(3 * Len(grid) - 1)

\* C23: a row-group panel of the structure view holds min(num_columns, 20)
\* column panels, those of columns 0..min(num_columns, 20)-1 in order and each
\* once, three to a grid row; the note on further columns is present iff
\* num_columns > 20 and then counts num_columns - 20.
C23_GridShowsFirstColumns ==
    Rendered("structure") =>
        \A k \in KindsAt("row_group") :
            LET panel == Sections[k]
                rg == reader.row_groups[panel.index + 1]
                n == Len(rg.columns)
                shown == Min(n, 20)
                grid == panel.grid
            IN  /\ \A row \in 1..Len(grid) : Len(grid[row]) = 3
                /\ 3 * (Len(grid) - 1) < shown
                /\ shown <= 3 * Len(grid)
                /\ \A p \in GridPositions(grid) :
                     IF p < shown
                     THEN CellAt(grid, p) = ColumnPanel(rg.columns[p + 1])
                     ELSE CellAt(grid, p) = BlankCell
                /\ Cardinality({ p \in GridPositions(grid) :
                                   CellAt(grid, p).kind = "column" }) = shown
                /\ \A p, q \in GridPositions(grid) :
                     (p < q /\ q < shown) => CellAt(grid, p) # CellAt(grid, q)
                /\ (panel.more # 0) <=> (n > 20)
                /\ n > 20 => panel.more = n - 20

C23_Witness ==
    /\ Rendered("structure")
    /\ \E k \in KindsAt("row_group") :
         /\ Len(reader.row_groups[Sections[k].index + 1].columns) = 22
         /\ Len(Sections[k].grid) = 7
         /\ Sections[k].grid[7][3] = BlankCell
         /\ Sections[k].more = 2

C23_WitnessNoNote ==
    /\ Rendered("structure")
    /\ \E k \in KindsAt("row_group") :
         /\ Len(reader.row_groups[Sections[k].index + 1].columns) = 20
         /\ Sections[k].more = 0

(***************************************************************************)
(* Properties of the stats records (SpecAggregate)                         *)
(***************************************************************************)
StatsListed == Rendered("stats") /\ out.result.value.state = "rendered"

\* The row groups (1-based) whose chunk of column pos has statistics set.
WithStatistics(r, pos) ==
    { i \in 1..Len(r.row_groups) : r.row_groups[i].columns[pos + 1].is_stats_set }

\* C24: for each column the stats view lists one record per row group whose
\* statistics are set, in increasing row-group index and none merged with
\* another; in a record min/max, null_count and distinct_count each appear
\* iff the chunk's presence flag is set.
C24_RecordPerRowGroupUnderFlags ==
    StatsListed =>
        \A k \in 1..Len(out.result.value.columns) :
            LET panel == out.result.value.columns[k]
                records == panel.records
                with == WithStatistics(reader, panel.position)
            IN  /\ panel.position = k - 1
                /\ Len(records) = Cardinality(with)
                /\ \A a, b \in 1..Len(records) :
                     a < b => records[a].row_group < records[b].row_group
                /\ \A a \in 1..Len(records) :
                     /\ records[a].row_group + 1 \in with
                     /\ LET c == reader.row_groups[records[a].row_group + 1]
                                     .columns[panel.position + 1]
                        IN  /\ records[a].min_max <=> CarriesMinMax(c)
                            /\ records[a].null_count <=> CarriesNullCount(c)
                            /\ records[a].distinct_count <=> CarriesDistinctCount(c)

C24_Witness ==
    /\ StatsListed
    /\ \E k \in 1..Len(out.result.value.columns) :
         LET records == out.result.value.columns[k].records
         IN  /\ Len(records) = 2
             /\ records[1].row_group = 0
             /\ records[1].min_max /\ records[1].distinct_count
             /\ records[2].row_group = 1
             /\ ~records[2].min_max /\ records[2].null_count
             /\ ~records[2].distinct_count

C24_WitnessSkippedRowGroup ==
    /\ StatsListed
    /\ \E k \in 1..Len(out.result.value.columns) :
         LET records == out.result.value.columns[k].records
         IN  /\ Len(records) = 1
             /\ records[1].row_group = 1

(***************************************************************************)
(* Properties of the file-level totals (SpecRatio)                         *)
(***************************************************************************)
\* The sum of total_sizes over the row groups in S.
RECURSIVE TotalSizesOver(_, _)
TotalSizesOver(r, S) ==
    IF S = {} THEN <<0, 0>>
    ELSE LET i == CHOOSE x \in S : TRUE
             rest == TotalSizesOver(r, S \ {i})
             sizes == total_sizes(r.row_groups[i])
         IN  <<rest[1] + sizes.compressed, rest[2] + sizes.uncompressed>>

\* The sum of the schema view's per-column aggregates over the panels in S.
RECURSIVE SchemaTotalsOver(_, _)
SchemaTotalsOver(panels, S) ==
    IF S = {} THEN <<0, 0>>
    ELSE LET k == CHOOSE x \in S : TRUE
             rest == SchemaTotalsOver(panels, S \ {k})
         IN  IF panels[k].sizes
             THEN <<rest[1] + panels[k].total[1], rest[2] + panels[k].total[2]>>
             ELSE rest

\* C25: the file-level totals of the metadata view are the sums of
\* total_sizes over all row groups and, when all row groups have the same
\* column count, the sums of the schema view's per-column aggregates, for the
\* compressed and for the uncompressed size.
C25_TotalsAgree ==
    out.op = "metadata" =>
        LET totals == TotalSizesOver(reader, 1..Len(reader.row_groups))
            panels == render_schema(reader).value.columns
            schema == SchemaTotalsOver(panels, 1..Len(panels))
        IN  /\ ~out.result.raised
            /\ out.result.value.total_compressed
                 = MetadataTab_format_size(totals[1])
            /\ out.result.value.total_uncompressed
                 = MetadataTab_format_size(totals[2])
            /\ Consistent(reader) =>
                 /\ out.result.value.total_compressed
                      = MetadataTab_format_size(schema[1])
                 /\ out.result.value.total_uncompressed
                      = MetadataTab_format_size(schema[2])

C25_Witness ==
    /\ out.op = "metadata"
    /\ Len(reader.row_groups) = 2
    /\ Consistent(reader)
    /\ Len(reader.row_groups[1].columns) >= 1
    /\ reader.num_columns = Len(reader.row_groups[1].columns)
    /\ out.result.value.total_compressed = <<2, "bytes">>
    /\ out.result.value.total_uncompressed = <<3, "bytes">>

(***************************************************************************)
(* The views and the reader (SpecApp)                                      *)
(***************************************************************************)
\* The outcome in o is what the views make of reader r.
OutputOf(o, r) ==
    /\ o.op = "structure" => o.result = render_structure(r)
    /\ o.op = "schema" => o.result = render_schema(r)
    /\ o.op = "data" => o.result = render_data(r, o.num_rows)
    /\ o.op = "metadata" => o.result = render_metadata(r)
    /\ o.op = "stats" => o.result = render_stats(r)
    /\ o.op = "app" =>
         o.result.tabs = <<render_structure(r), render_schema(r),
                           render_data(r, 50), render_metadata(r),
                           render_stats(r)>>

C27_Original ==
    (Composed /\ out.data_activations > 0) =>
        out.result.reads = out.data_activations

\* C27 (amended): the preview read is executed once, when the tabs are
\* composed at the start of the app; activating the data tab, however often,
\* causes no further read and shows the result of that one read.
C27_ReadOnceAtCompose ==
    (Composed /\ ~out.result.terminated) =>
        /\ out.result.reads = 1
        /\ TabOf("tab-data") = render_data(reader, 50)

C27_Witness ==
    /\ Composed
    /\ ~out.result.terminated
    /\ out.active = "tab-data"
    /\ out.data_activations = 2
    /\ out.result.reads = 1
    /\ TabOf("tab-data").value.state = "preview"

(***************************************************************************)
(* Properties of the S3 reader behind the command line (SpecCli)           *)
(***************************************************************************)
\* The invocation built an S3 reader.
BuiltRemote == out.op = "main" /\ out.result.reader.class = "S3ParquetReader"

\* C28 (as stated): S3ParquetReader opens the object store with the
\* access_key_id, secret_access_key and endpoint_url it is constructed with,
\* and with no other credential or endpoint.
C28_Original ==
    BuiltRemote =>
        /\ out.result.reader.store.access_key_id = out.access_key_id
        /\ out.result.reader.store.secret_access_key = out.secret_access_key
        /\ out.endpoint_url # "None" =>
             out.result.reader.store.endpoint = out.endpoint_url

(***************************************************************************)
(* The structure view against RowGroup (SpecByteSize)                      *)
(***************************************************************************)
\* C29 (as stated): for every row group the uncompressed size of the
\* structure view's summary, taken from total_byte_size, is
\* total_sizes(rg).uncompressed, and the view's compressed sum and its
\* compression test are total_sizes(rg).compressed and has_compression(rg).
C29_Original ==
    Rendered("structure") =>
        \A k \in KindsAt("row_group") :
            LET panel == Sections[k]
                rg == get_row_group(reader, panel.index)
                sizes == total_sizes(rg)
            IN  /\ (panel.size = Absent) <=> has_compression(rg)
                /\ has_compression(rg) =>
                     /\ panel.compressed
                          = StructureTab_format_size(sizes.compressed)
                     /\ panel.uncompressed
                          = StructureTab_format_size(sizes.uncompressed)
                /\ ~has_compression(rg) =>
                     panel.size = StructureTab_format_size(sizes.compressed)

(***************************************************************************)
(* The app on an S3 reader (SpecApp)                                       *)
(***************************************************************************)
\* The reader is an S3ParquetReader: its file_path is the URI it was given.
ReaderIsRemote == reader.file_path = "str"

\* C30 (as stated): after a successful open of an S3 object the app starts
\* and the structure view renders its file-info section, file name and
\* formatted size, without error: S3ParquetReader provides every accessor the
\* views use with the type the view expects.
C30_Original ==
    (Composed /\ ReaderIsRemote) =>
        /\ TabOf("tab-structure") # Raised("AttributeError")
        /\ \/ TabOf("tab-structure").raised
           \/ \E k \in 1..Len(TabOf("tab-structure").sections) :
                TabOf("tab-structure").sections[k].kind = "file_info"

====
